---- MODULE Spec2Model ----
(***************************************************************************)
(* Model of metrics-labels-extractor-from-prometheus:                      *)
(*   cardinality_analysis_script.py  (the analysis pipeline, main())       *)
(*   get_all_dashboards.py           (the dashboard / alert exporter)      *)
(*                                                                         *)
(* Text is modelled as sequences of one-character strings, so that the two *)
(* regular expressions of the extractor are scanned character by character *)
(* the way re.findall scans them.                                          *)
(*                                                                         *)
(* Environment: a query-source file is absent or holds lines of text (an   *)
(* I/O error while reading an existing file is not part of it); a backend  *)
(* request fails with a request error or answers with a body, well formed  *)
(* or not.  An exception that no handler of the script catches ends the    *)
(* run ("crashed", "crashed_top", "raised").                               *)
(***************************************************************************)
EXTENDS Integers, Sequences, FiniteSets, TLC

\* ------------------------------------------------------------------ bounds
MaxLineLen == 4
MaxSeries == 2
MaxTop == 2
MaxDash == 2

\* --------------------------------------------------------- character classes
\* The characters lines are drawn from: two letters, a digit, ':', '=', a
\* blank and one punctuation character.
Letters == {"a", "p"}
Digits == {"1"}
Spaces == {" "}
Alphabet == Letters \cup Digits \cup Spaces \cup {":", "=", "{"}

\* [a-zA-Z_:]
IsMetricStart(c) == c \in Letters \cup {":"}
\* [a-zA-Z0-9_:]
IsMetricChar(c) == c \in Letters \cup Digits \cup {":"}
\* [a-zA-Z_]
IsLabelStart(c) == c \in Letters
\* [a-zA-Z0-9_]
IsLabelChar(c) == c \in Letters \cup Digits
\* \s
IsSpace(c) == c \in Spaces

\* ------------------------------------------------------- re.findall scanning
\* The last index of the greedy run [a-zA-Z0-9_:]* that starts at i.
RECURSIVE MetricRunEnd(_, _)
MetricRunEnd(line, i) ==
    IF i < Len(line) /\ IsMetricChar(line[i + 1])
    THEN MetricRunEnd(line, i + 1)
    ELSE i

\* metric_pattern.findall(line): leftmost, greedy, non-overlapping matches.
RECURSIVE MetricFindallFrom(_, _)
MetricFindallFrom(line, i) ==
    IF i > Len(line) THEN <<>>
    ELSE IF IsMetricStart(line[i])
         THEN LET j == MetricRunEnd(line, i)
              IN  <<SubSeq(line, i, j)>> \o MetricFindallFrom(line, j + 1)
         ELSE MetricFindallFrom(line, i + 1)

\* Variant: the pattern tried at the start of the line only (re.match).
MetricMatchAtStart(line) ==
    IF line # <<>> /\ IsMetricStart(line[1])
    THEN <<SubSeq(line, 1, MetricRunEnd(line, 1))>>
    ELSE <<>>

MetricFindall(line) == MetricFindallFrom(line, 1)

\* The ways ([a-zA-Z_][a-zA-Z0-9_]*)\s*= can match at position i: <<j, k>>
\* with the identifier on i..j, blanks on j+1..k-1 and '=' at k.
LabelMatchesAt(line, i) ==
    IF ~IsLabelStart(line[i]) THEN {}
    ELSE { jk \in (i..Len(line)) \X (i..Len(line)) :
             /\ jk[1] < jk[2]
             /\ \A q \in (i + 1)..jk[1] : IsLabelChar(line[q])
             /\ \A q \in (jk[1] + 1)..(jk[2] - 1) : IsSpace(line[q])
             /\ line[jk[2]] = "=" }

\* The match the backtracking engine reports: longest identifier first, then
\* longest run of blanks.
LabelFirstMatch(line, i) ==
    LET ms == LabelMatchesAt(line, i)
    IN  CHOOSE m \in ms :
            \A o \in ms : o[1] < m[1] \/ (o[1] = m[1] /\ o[2] <= m[2])

\* label_pattern.findall(line): the captured group of each match.
RECURSIVE LabelFindallFrom(_, _)
LabelFindallFrom(line, i) ==
    IF i > Len(line) THEN <<>>
    ELSE IF LabelMatchesAt(line, i) # {}
         THEN LET m == LabelFirstMatch(line, i)
              IN  <<SubSeq(line, i, m[1])>> \o LabelFindallFrom(line, m[2] + 1)
         ELSE LabelFindallFrom(line, i + 1)

LabelFindall(line) == LabelFindallFrom(line, 1)

\* ------------------------------------------------------------ query sources
QUERIES_PATHS ==
    << "results/grafana_promql_queries.txt",
       "results/grafana_specific_metric.txt",
       "results/alertmanager_promql_expressions.txt" >>

\* `needle in path` for the file names the extractor looks for.
PathContains(path, needle) ==
    <<path, needle>> \in
        { <<"results/grafana_promql_queries.txt", "grafana_promql_queries.txt">>,
          <<"results/alertmanager_promql_expressions.txt",
            "alertmanager_promql_expressions.txt">>,
          <<"results/grafana_specific_metric.txt", "specific_metric.txt">> }

SourceOf(path) ==
    IF PathContains(path, "grafana_promql_queries.txt") THEN "grafana"
    ELSE IF PathContains(path, "alertmanager_promql_expressions.txt")
         THEN "alertmanager"
    ELSE IF PathContains(path, "specific_metric.txt") THEN "specific"
    ELSE ""

\* A file on disk: absent, or a sequence of lines.
Missing == [exists |-> FALSE, lines |-> <<>>]
FileOf(ls) == [exists |-> TRUE, lines |-> ls]

\* Variant: the source assigned, not added (used_metrics[match] = {source}).
AddSourceOverwrite(um, match, source) ==
    [k \in DOMAIN um \cup {match} |-> IF k = match THEN {source} ELSE um[k]]

\* used_metrics[match].add(source) on a defaultdict(set)
AddSource(um, match, source) ==
    IF match \in DOMAIN um
    THEN [um EXCEPT ![match] = @ \cup {source}]
    ELSE [k \in DOMAIN um \cup {match} |->
            IF k = match THEN {source} ELSE um[k]]

RECURSIVE AddMatches(_, _, _)
AddMatches(um, matches, source) ==
    IF matches = <<>> THEN um
    ELSE AddMatches(AddSource(um, Head(matches), source), Tail(matches), source)

SeqToSet(s) == { s[i] : i \in 1..Len(s) }

\* The body of `for line in f`: acc is <<used_metrics, used_labels>>.
RECURSIVE ScanLines(_, _, _)
ScanLines(acc, lines, source) ==
    IF lines = <<>> THEN acc
    ELSE LET line == Head(lines)
             um == AddMatches(acc[1], MetricFindall(line), source)
             ul == acc[2] \cup SeqToSet(LabelFindall(line))
         IN  ScanLines(<<um, ul>>, Tail(lines), source)

\* Variant: a missing file ends the pass with the empty result.
RECURSIVE ScanPathsAbortOnMissing(_, _, _)
ScanPathsAbortOnMissing(acc, paths, fs) ==
    IF paths = <<>> THEN acc
    ELSE LET path == Head(paths)
         IN  IF ~fs[path].exists
             THEN <<[k \in {} |-> {}], {}>>
             ELSE ScanPathsAbortOnMissing(
                      ScanLines(acc, fs[path].lines, SourceOf(path)),
                      Tail(paths), fs)

\* The body of `for path in paths`, missing files skipped.
RECURSIVE ScanPaths(_, _, _)
ScanPaths(acc, paths, fs) ==
    IF paths = <<>> THEN acc
    ELSE LET path == Head(paths)
         IN  IF ~fs[path].exists
             THEN ScanPaths(acc, Tail(paths), fs)
             ELSE ScanPaths(ScanLines(acc, fs[path].lines, SourceOf(path)),
                            Tail(paths), fs)

EmptyMap == [k \in {} |-> {}]

\* The sequences that list each element of the set S once.
ListsOf(S) ==
    { s \in [1..Cardinality(S) -> S] : \A i, j \in 1..Cardinality(S) :
                                          s[i] = s[j] => i = j }

\* list(v) of a set of strings: the order is the set's iteration order, one
\* order per set of sources within a run.
SetOrders(sets) == { f \in [sets -> UNION { ListsOf(S) : S \in sets }] :
                       \A S \in sets : f[S] \in ListsOf(S) }

\* extract_metrics_and_labels_from_queries(paths), with `order` the iteration
\* order of the source sets.
ExtractSets(paths, fs) == ScanPaths(<<EmptyMap, {}>>, paths, fs)

ExtractResult(paths, fs, order) ==
    LET acc == ExtractSets(paths, fs)
    IN  << [k \in DOMAIN acc[1] |-> order[acc[1][k]]], acc[2] >>

\* --------------------------------------------------------- analyze_labels
\* "__name__"
NAME_LABEL == <<"_", "_", "n", "a", "m", "e", "_", "_">>

\* An element of a series payload: a JSON object (label -> value), or a JSON
\* value that is no object and has no .items().
Mapping(f) == [kind |-> "mapping", items |-> f]
Scalar == [kind |-> "scalar", items |-> <<>>]

\* Variant: the "__name__" label counted like any other.
FoldSeriesKeepName(counter, items) ==
    [l \in DOMAIN counter \cup DOMAIN items |->
        (IF l \in DOMAIN counter THEN counter[l] ELSE {})
        \cup (IF l \in DOMAIN items THEN {items[l]} ELSE {})]

\* label_counter[label].add(value) for every item of one series, the
\* "__name__" label left out.
FoldSeries(counter, items) ==
    LET keys == DOMAIN items \ {NAME_LABEL}
    IN  [l \in DOMAIN counter \cup keys |->
            (IF l \in DOMAIN counter THEN counter[l] ELSE {})
            \cup (IF l \in keys THEN {items[l]} ELSE {})]

\* The loop of analyze_labels; [ok |-> FALSE] when an element raises.
RECURSIVE FoldAll(_, _)
FoldAll(counter, series_data) ==
    IF series_data = <<>> THEN [ok |-> TRUE, counter |-> counter]
    ELSE IF Head(series_data).kind # "mapping"
         THEN [ok |-> FALSE, counter |-> counter]
         ELSE FoldAll(FoldSeries(counter, Head(series_data).items),
                      Tail(series_data))

\* The "data" member of a series response: a JSON array, or null.
List(items) == [kind |-> "list", items |-> items]
Null == [kind |-> "null", items |-> <<>>]

\* analyze_labels(series_data): len(series_data) is taken before the try
\* block, so a payload without a length raises out of the function; an
\* exception inside the loop is caught and {} returned.
analyze_labels(series_data) ==
    IF series_data.kind # "list"
    THEN [raised |-> TRUE, value |-> EmptyMap]
    ELSE LET r == FoldAll(EmptyMap, series_data.items)
         IN  [raised |-> FALSE,
              value |-> IF r.ok
                        THEN [l \in DOMAIN r.counter |->
                                Cardinality(r.counter[l])]
                        ELSE EmptyMap]

\* ------------------------------------------------- backend responses
\* A response to GET /api/v1/series: a request error (connection failure,
\* error status), a JSON body without "data", or a body with "data".
RequestError == [kind |-> "request_error", data |-> Null]
NoDataKey == [kind |-> "no_data", data |-> Null]
WithData(d) == [kind |-> "data", data |-> d]

\* fetch_series_for_metric: RequestException is caught and [] returned, a
\* KeyError of response.json()["data"] is not.
fetch_series_for_metric(response) ==
    IF response.kind = "request_error"
    THEN [raised |-> FALSE, value |-> List(<<>>)]
    ELSE IF response.kind = "no_data"
         THEN [raised |-> TRUE, value |-> Null]
         ELSE [raised |-> FALSE, value |-> response.data]

\* The metric names and series counts the backend reports.
MetricNames == { <<"a">>, <<"p">>, <<"a", "1">> }
SeriesCounts == {50, 500}

Obs1(m) == Mapping((NAME_LABEL :> m) @@ (<<"p">> :> "x"))
Obs2(m) == Mapping((NAME_LABEL :> m) @@ (<<"p">> :> "y") @@ (<<"a">> :> "x"))

SeriesResponses(m) ==
    { RequestError, NoDataKey, WithData(Null),
      WithData(List(<<>>)),
      WithData(List(<<Obs1(m), Obs2(m)>>)),
      WithData(List(<<Obs1(m), Scalar>>)) }

TopLists ==
    UNION { { s \in [1..n -> [metric : MetricNames, series_count : SeriesCounts]] :
                \A i, j \in 1..n : s[i].metric = s[j].metric => i = j } :
            n \in 0..MaxTop }

\* fetch_top_cardinality_metrics: [] on a request error; a body without
\* data.result raises a KeyError that is not caught.
fetch_top_cardinality_metrics(response) ==
    IF response.kind = "request_error"
    THEN [raised |-> FALSE, value |-> <<>>]
    ELSE IF response.kind = "malformed"
         THEN [raised |-> TRUE, value |-> <<>>]
         ELSE [raised |-> FALSE, value |-> response.items]

TopResponses ==
    { [kind |-> "request_error", items |-> <<>>],
      [kind |-> "malformed", items |-> <<>>] }
    \cup { [kind |-> "result", items |-> t] : t \in TopLists }

\* The files a query source can be: absent, one line with a metric and a
\* label matcher, one line without any match, or two lines.
QueryLines == { <<"a", "{", "p", "=">>, <<"1", "=">> }
FileOptions ==
    { Missing } \cup { FileOf(<<l>>) : l \in QueryLines }
    \cup { FileOf(<< <<"a", "1", " ", "a">>, <<"a", " ", "=">> >>) }

\* ----------------------------------------------------------------- state
VARIABLES
    prometheus_url,   \* PROMETHEUS_URL
    files,            \* the query-source files on disk
    pc,               \* position of main() of the analysis script
    health,           \* what is_prometheus_healthy() returned
    top_metrics,      \* main: top_metrics
    used_metrics,     \* main: used_metrics (metric -> list of sources)
    used_labels,      \* main: used_labels
    idx,              \* position of `for item in top_metrics`
    label_cardinality, \* main: label_cardinality of the last iteration
    summary,          \* main: summary
    console,          \* the digest lines printed
    artifact,         \* results/metric_cardinality_summary.json
    issued,           \* kinds of backend request issued so far
    opened            \* query-source files opened so far

pipeVars == << prometheus_url, files, pc, health, top_metrics, used_metrics,
               used_labels, idx, label_cardinality, summary, console,
               artifact, issued, opened >>

\* the dashboard exporter
VARIABLES
    grafana_url,                  \* GRAFANA_URL
    grafana_session_cookie,       \* GRAFANA_SESSION_COOKIE
    alertmanager_url,             \* ALERTMANAGER_URL
    alertmanager_session_cookie,  \* ALERTMANAGER_SESSION_COOKIE
    xpc,                          \* position of the exporter
    dashboards,                   \* main: dashboards (search result)
    dash_idx,                     \* position of `for dash in dashboards`
    all_queries,                  \* main: all_queries
    sent                          \* requests sent: [to, headers]

expVars == << grafana_url, grafana_session_cookie, alertmanager_url,
              alertmanager_session_cookie, xpc, dashboards, dash_idx,
              all_queries, sent >>

\* the label analysis applied on its own
VARIABLES
    unit_series,   \* the series_data analyze_labels is given
    unit_labels,   \* the label_cardinality it returns
    unit_pc

unitVars == << unit_series, unit_labels, unit_pc >>

\* the pipeline's variables other than the files of the results directory
pipeRest == << prometheus_url, pc, health, top_metrics, used_metrics,
               used_labels, idx, label_cardinality, summary, console,
               artifact, issued, opened >>

vars == << pipeVars, expVars, unitVars >>

UNSET == "<unset>"
Falsy(v) == v \in {UNSET, ""}
\* The summary file: absent, left by an earlier run, or written by this run.
NoArtifact == [present |-> FALSE, fresh |-> FALSE, content |-> <<>>]
StaleArtifact == [present |-> TRUE, fresh |-> FALSE, content |-> <<>>]

PipeStart ==
    /\ pc = "start"
    /\ health = "unknown"
    /\ label_cardinality = EmptyMap
    /\ top_metrics = <<>>
    /\ used_metrics = EmptyMap
    /\ used_labels = {}
    /\ idx = 1
    /\ summary = <<>>
    /\ console = <<>>
    /\ artifact \in { NoArtifact, StaleArtifact }
    /\ issued = {}
    /\ opened = {}

\* main: `if not PROMETHEUS_URL: raise EnvironmentError`
CheckConfig ==
    /\ pc = "start"
    /\ pc' = IF Falsy(prometheus_url) THEN "raised" ELSE "probe"
    /\ UNCHANGED << prometheus_url, files, health, top_metrics, used_metrics,
                    used_labels, idx, label_cardinality, summary, console,
                    artifact, issued, opened >>
    /\ UNCHANGED << expVars, unitVars >>

\* Variant: the result of the probe not acted on.
HealthGateIgnored(healthy) == "top"

\* is_prometheus_healthy() and main's `return` when it is not.
HealthGate(healthy) == IF healthy THEN "top" ELSE "returned"

HealthProbe ==
    /\ pc = "probe"
    /\ \E healthy \in BOOLEAN :
          /\ health' = IF healthy THEN "healthy" ELSE "unhealthy"
          /\ pc' = HealthGate(healthy)
    /\ issued' = issued \cup {"health"}
    /\ UNCHANGED << prometheus_url, files, top_metrics, used_metrics,
                    used_labels, idx, label_cardinality, summary, console,
                    artifact, opened >>
    /\ UNCHANGED << expVars, unitVars >>

FetchTop ==
    /\ pc = "top"
    /\ \E response \in TopResponses :
          LET fetched == fetch_top_cardinality_metrics(response)
          IN  /\ top_metrics' = fetched.value
              /\ pc' = IF fetched.raised THEN "crashed_top" ELSE "extract"
    /\ issued' = issued \cup {"top"}
    /\ UNCHANGED << prometheus_url, files, health, used_metrics, used_labels,
                    idx, label_cardinality, summary, console, artifact, opened >>
    /\ UNCHANGED << expVars, unitVars >>

Extract ==
    /\ pc = "extract"
    /\ LET acc == ExtractSets(QUERIES_PATHS, files)
           sets == { acc[1][k] : k \in DOMAIN acc[1] }
       IN  \E order \in SetOrders(sets) :
              LET r == ExtractResult(QUERIES_PATHS, files, order)
              IN  /\ used_metrics' = r[1]
                  /\ used_labels' = r[2]
    /\ opened' = { p \in SeqToSet(QUERIES_PATHS) : files[p].exists }
    /\ pc' = "loop"
    /\ UNCHANGED << prometheus_url, files, health, top_metrics, idx,
                    label_cardinality, summary, console, artifact, issued >>
    /\ UNCHANGED << expVars, unitVars >>

\* Variant: a label counted as used only when it has several values.
LabelUsageHighOnly(cardinality, ul) ==
    [label \in DOMAIN cardinality |->
        [cardinality |-> cardinality[label],
         in_use |-> label \in ul /\ cardinality[label] > 1]]

\* label_usage of main()
LabelUsage(cardinality, ul) ==
    [label \in DOMAIN cardinality |->
        [cardinality |-> cardinality[label], in_use |-> label \in ul]]

\* used_metrics.get(metric, [])
Get(um, metric) == IF metric \in DOMAIN um THEN um[metric] ELSE <<>>

\* Variant: the metric looked up in the label set.
ReportChecksLabels(item, um, ul, cardinality) ==
    [metric |-> item.metric,
     series_count |-> item.series_count,
     in_use |-> item.metric \in ul,
     used_in |-> IF item.metric \in DOMAIN um THEN um[item.metric] ELSE <<>>,
     labels |-> [label \in DOMAIN cardinality |->
                   [cardinality |-> cardinality[label], in_use |-> label \in ul]]]

\* the record main() appends to summary
Report(item, um, ul, cardinality) ==
    [metric |-> item.metric,
     series_count |-> item.series_count,
     in_use |-> item.metric \in DOMAIN um,
     used_in |-> Get(um, item.metric),
     labels |-> LabelUsage(cardinality, ul)]

\* One iteration of `for item in top_metrics`: the series fetch, the label
\* analysis and the append. An exception neither function catches leaves
\* main().
ProcessMetric ==
    /\ pc = "loop"
    /\ idx <= Len(top_metrics)
    /\ issued' = issued \cup {"series"}
    /\ \E response \in SeriesResponses(top_metrics[idx].metric) :
          LET fetched == fetch_series_for_metric(response)
              analysed == analyze_labels(fetched.value)
          IN  IF fetched.raised \/ analysed.raised
              THEN /\ pc' = "crashed"
                   /\ UNCHANGED << idx, summary, label_cardinality >>
              ELSE /\ pc' = "loop"
                   /\ idx' = idx + 1
                   /\ label_cardinality' = analysed.value
                   /\ summary' = Append(summary,
                                   Report(top_metrics[idx], used_metrics,
                                          used_labels, analysed.value))
    /\ UNCHANGED << prometheus_url, files, health, top_metrics, used_metrics,
                    used_labels, console, artifact, opened >>
    /\ UNCHANGED << expVars, unitVars >>

\* Variant: an item placed before the items of equal key.
RECURSIVE InsertBeforeEqual(_, _)
InsertBeforeEqual(sorted, item) ==
    IF sorted = <<>> THEN <<item>>
    ELSE IF -Head(sorted).series_count < -item.series_count
         THEN <<Head(sorted)>> \o InsertBeforeEqual(Tail(sorted), item)
         ELSE <<item>> \o sorted

\* sorted(summary, key=lambda x: -x["series_count"]): a stable sort.
RECURSIVE InsertStable(_, _)
InsertStable(sorted, item) ==
    IF sorted = <<>> THEN <<item>>
    ELSE IF -Head(sorted).series_count <= -item.series_count
         THEN <<Head(sorted)>> \o InsertStable(Tail(sorted), item)
         ELSE <<item>> \o sorted

RECURSIVE SortedFrom(_, _)
SortedFrom(acc, rest) ==
    IF rest = <<>> THEN acc
    ELSE SortedFrom(InsertStable(acc, Head(rest)), Tail(rest))

Sorted(s) == SortedFrom(<<>>, s)

\* the line printed for one report
ConsoleLine(item) ==
    [metric |-> item.metric,
     series_count |-> item.series_count,
     status |-> IF item.in_use THEN "USED" ELSE "UNUSED",
     detail |-> IF item.used_in # <<>> THEN item.used_in ELSE <<"not used">>]

PrintDigest ==
    /\ pc = "loop"
    /\ idx > Len(top_metrics)
    /\ console' = [i \in 1..Len(summary) |-> ConsoleLine(Sorted(summary)[i])]
    /\ pc' = "write"
    /\ UNCHANGED << prometheus_url, files, health, top_metrics, used_metrics,
                    used_labels, idx, label_cardinality, summary, artifact,
                    issued, opened >>
    /\ UNCHANGED << expVars, unitVars >>

\* json.dump(summary, f): the list main() built, in the order it was built.
WriteSummary ==
    /\ pc = "write"
    /\ artifact' = [present |-> TRUE, fresh |-> TRUE, content |-> summary]
    /\ pc' = "done"
    /\ UNCHANGED << prometheus_url, files, health, top_metrics, used_metrics,
                    used_labels, idx, label_cardinality, summary, console,
                    issued, opened >>
    /\ UNCHANGED << expVars, unitVars >>

\* ------------------------------------------------------ dashboard exporter
GRAFANA_FILE == QUERIES_PATHS[1]
SPECIFIC_FILE == QUERIES_PATHS[2]
ALERT_FILE == QUERIES_PATHS[3]

\* headers: {} with a "Cookie" entry only when the cookie is set.
NoHeaders == [k \in {} |-> ""]
Headers(cookie_name, cookie) ==
    IF Falsy(cookie) THEN NoHeaders
    ELSE [k \in {"Cookie"} |-> <<cookie_name, cookie>>]

\* target.get("expr") and the g0.expr of an alert: a string, or None.
Expr(text) == [present |-> TRUE, text |-> text]
NoExpr == [present |-> FALSE, text |-> <<>>]
FalsyExpr(e) == ~e.present \/ e.text = <<>>

\* The dashboards of the Grafana backend: title and the expr of each target
\* of each panel.
DashboardDefs ==
    [uid \in {"d1", "d2", "d3"} |->
        IF uid = "d1"
        THEN [title |-> <<"p">>,
              panels |-> << << Expr(<<"a", "{", "p", "=">>), NoExpr >> >>]
        ELSE IF uid = "d2"
        THEN [title |-> <<"a">>,
              panels |-> << << Expr(<<"a", "1">>) >>, << Expr(<<"p">>), Expr(<<>>) >> >>]
        ELSE [title |-> <<"1">>, panels |-> << >>]]

SearchResults ==
    UNION { { s \in [1..n -> DOMAIN DashboardDefs] :
                \A i, j \in 1..n : s[i] = s[j] => i = j } :
            n \in 0..MaxDash }

\* extract_queries: f"{title}: {expr}" for every target with a non-empty expr
RECURSIVE TargetQueries(_, _)
TargetQueries(title, targets) ==
    IF targets = <<>> THEN <<>>
    ELSE (IF FalsyExpr(Head(targets)) THEN <<>>
          ELSE << title \o <<":", " ">> \o Head(targets).text >>)
         \o TargetQueries(title, Tail(targets))

RECURSIVE PanelQueries(_, _)
PanelQueries(title, panels) ==
    IF panels = <<>> THEN <<>>
    ELSE TargetQueries(title, Head(panels)) \o PanelQueries(title, Tail(panels))

extract_queries(dashboard_json) ==
    PanelQueries(dashboard_json.title, dashboard_json.panels)

\* `needle in hay` on strings
Contains(needle, hay) ==
    \E i \in 1..(Len(hay) + 1) :
        /\ i + Len(needle) - 1 <= Len(hay)
        /\ SubSeq(hay, i, i + Len(needle) - 1) = needle

\* [query for query in all_queries if metric_name in query]
RECURSIVE Filtered(_, _)
Filtered(queries, metric_name) ==
    IF queries = <<>> THEN <<>>
    ELSE (IF Contains(metric_name, Head(queries)) THEN <<Head(queries)>>
          ELSE <<>>)
         \o Filtered(Tail(queries), metric_name)

Lower(answer) == IF answer = "Y" THEN "y" ELSE answer

ExporterStart ==
    /\ xpc = "start"
    /\ dashboards = <<>>
    /\ dash_idx = 1
    /\ all_queries = <<>>
    /\ sent = {}

\* __main__: the guard before main()
StartupGuard(url, cookie) == Falsy(url) \/ Falsy(cookie)

XStartup ==
    /\ xpc = "start"
    /\ xpc' = IF StartupGuard(grafana_url, grafana_session_cookie)
              THEN "raised" ELSE "search"
    /\ UNCHANGED << grafana_url, grafana_session_cookie, alertmanager_url,
                    alertmanager_session_cookie, dashboards, dash_idx,
                    all_queries, sent, files >>
    /\ UNCHANGED << pipeRest, unitVars >>

\* load_dashboard_metadata: raise_for_status is not caught.
XSearch ==
    /\ xpc = "search"
    /\ sent' = sent \cup
          { [to |-> "grafana:/api/search",
             headers |-> Headers("grafana_session", grafana_session_cookie)] }
    /\ \/ /\ xpc' = "crashed"
          /\ UNCHANGED dashboards
       \/ /\ \E found \in SearchResults : dashboards' = found
          /\ xpc' = "fetch"
    /\ UNCHANGED << grafana_url, grafana_session_cookie, alertmanager_url,
                    alertmanager_session_cookie, dash_idx, all_queries, files >>
    /\ UNCHANGED << pipeRest, unitVars >>

\* One iteration of `for dash in dashboards`; a RequestException skips the
\* dashboard.
XFetchDashboard ==
    /\ xpc = "fetch"
    /\ dash_idx <= Len(dashboards)
    /\ sent' = sent \cup
          { [to |-> "grafana:/api/dashboards/uid",
             headers |-> Headers("grafana_session", grafana_session_cookie)] }
    /\ \E ok \in BOOLEAN :
          all_queries' =
              IF ok
              THEN all_queries \o extract_queries(DashboardDefs[dashboards[dash_idx]])
              ELSE all_queries
    /\ dash_idx' = dash_idx + 1
    /\ UNCHANGED << grafana_url, grafana_session_cookie, alertmanager_url,
                    alertmanager_session_cookie, xpc, dashboards, files >>
    /\ UNCHANGED << pipeRest, unitVars >>

\* f.write("\n".join(all_queries)) to grafana_promql_queries.txt
XWriteQueries ==
    /\ xpc = "fetch"
    /\ dash_idx > Len(dashboards)
    /\ files' = [files EXCEPT ![GRAFANA_FILE] = FileOf(all_queries)]
    /\ xpc' = "prompt1"
    /\ UNCHANGED << grafana_url, grafana_session_cookie, alertmanager_url,
                    alertmanager_session_cookie, dashboards, dash_idx,
                    all_queries, sent >>
    /\ UNCHANGED << pipeRest, unitVars >>

MetricNameInputs == { <<"a">>, <<"a", "1">>, <<"=">>, <<"{", "{">> }

\* The first prompt and the optional grafana_specific_metric.txt
XSpecificMetric ==
    /\ xpc = "prompt1"
    /\ \E answer \in {"y", "Y", "n"}, metric_name \in MetricNameInputs :
          LET filtered_queries == Filtered(all_queries, metric_name)
          IN  files' = IF Lower(answer) = "y" /\ filtered_queries # <<>>
                       THEN [files EXCEPT ![SPECIFIC_FILE] = FileOf(filtered_queries)]
                       ELSE files
    /\ xpc' = "prompt2"
    /\ UNCHANGED << grafana_url, grafana_session_cookie, alertmanager_url,
                    alertmanager_session_cookie, dashboards, dash_idx,
                    all_queries, sent >>
    /\ UNCHANGED << pipeRest, unitVars >>

\* The expressions of the alerts of the alert backend (after
\* extract_promql_expression).
AlertLists ==
    { <<>>, << NoExpr >>,
      << Expr(<<"p">>), Expr(<<"a", "{", "p", "=">>), Expr(<<"p">>) >> }

\* code points order the characters of an expression
Rank(c) ==
    IF c = " " THEN 32 ELSE IF c = "1" THEN 49 ELSE IF c = ":" THEN 58
    ELSE IF c = "=" THEN 61 ELSE IF c = "a" THEN 97 ELSE IF c = "p" THEN 112
    ELSE 123

RECURSIVE LexLess(_, _)
LexLess(s, t) ==
    IF t = <<>> THEN FALSE
    ELSE IF s = <<>> THEN TRUE
    ELSE IF Rank(Head(s)) # Rank(Head(t)) THEN Rank(Head(s)) < Rank(Head(t))
    ELSE LexLess(Tail(s), Tail(t))

\* sorted(expressions_set)
RECURSIVE SortedSet(_)
SortedSet(S) ==
    IF S = {} THEN <<>>
    ELSE LET least == CHOOSE e \in S : \A o \in S \ {e} : LexLess(e, o)
         IN  <<least>> \o SortedSet(S \ {least})

\* the lines of "\n\n".join(exprs)
RECURSIVE JoinBlank(_)
JoinBlank(exprs) ==
    IF Len(exprs) <= 1 THEN exprs
    ELSE <<Head(exprs), <<>>>> \o JoinBlank(Tail(exprs))

\* The second prompt and get_alertmanager_metrics
XAlerts ==
    /\ xpc = "prompt2"
    /\ \E answer \in {"y", "Y", "n"} :
          IF Lower(answer) # "y"
          THEN /\ xpc' = "cleanup"
               /\ UNCHANGED << sent, files >>
          ELSE IF Falsy(alertmanager_url)
          THEN /\ xpc' = "raised_alertmanager_url"
               /\ UNCHANGED << sent, files >>
          ELSE /\ sent' = sent \cup
                     { [to |-> "alertmanager:/api/v2/alerts",
                        headers |-> Headers("alertmanager_session",
                                            alertmanager_session_cookie)] }
               /\ \/ /\ xpc' = "crashed"
                     /\ UNCHANGED files
                  \/ /\ xpc' = "cleanup"
                     /\ \E alerts \in AlertLists :
                           LET expressions_set ==
                                   { e.text : e \in { a \in SeqToSet(alerts) :
                                                         ~FalsyExpr(a) } }
                           IN  files' =
                                 IF expressions_set # {}
                                 THEN [files EXCEPT ![ALERT_FILE] =
                                         FileOf(JoinBlank(SortedSet(expressions_set)))]
                                 ELSE files
    /\ UNCHANGED << grafana_url, grafana_session_cookie, alertmanager_url,
                    alertmanager_session_cookie, dashboards, dash_idx,
                    all_queries >>
    /\ UNCHANGED << pipeRest, unitVars >>

\* clean_up_temp_files
XCleanup ==
    /\ xpc = "cleanup"
    /\ xpc' = "done"
    /\ UNCHANGED << grafana_url, grafana_session_cookie, alertmanager_url,
                    alertmanager_session_cookie, dashboards, dash_idx,
                    all_queries, sent, files >>
    /\ UNCHANGED << pipeRest, unitVars >>

\* --------------------------------------------------------- specifications
ExporterIdle ==
    /\ grafana_url = UNSET
    /\ grafana_session_cookie = UNSET
    /\ alertmanager_url = UNSET
    /\ alertmanager_session_cookie = UNSET
    /\ xpc = "idle"
    /\ dashboards = <<>>
    /\ dash_idx = 1
    /\ all_queries = <<>>
    /\ sent = {}

UnitIdle ==
    /\ unit_series = <<>>
    /\ unit_labels = EmptyMap
    /\ unit_pc = "idle"

PipeIdle ==
    /\ prometheus_url = UNSET
    /\ pc = "idle"
    /\ health = "unknown"
    /\ label_cardinality = EmptyMap
    /\ top_metrics = <<>>
    /\ used_metrics = EmptyMap
    /\ used_labels = {}
    /\ idx = 1
    /\ summary = <<>>
    /\ console = <<>>
    /\ artifact = NoArtifact
    /\ issued = {}
    /\ opened = {}

\* The analysis script, run over any state of the results directory.
Init ==
    /\ prometheus_url \in {UNSET, "", "http://localhost:9090"}
    /\ files \in [SeqToSet(QUERIES_PATHS) -> FileOptions]
    /\ PipeStart
    /\ ExporterIdle
    /\ UnitIdle

Next ==
    \/ CheckConfig
    \/ HealthProbe
    \/ FetchTop
    \/ Extract
    \/ ProcessMetric
    \/ PrintDigest
    \/ WriteSummary

Spec == Init /\ [][Next]_vars

\* The sequences over S of length at most n.
SeqsUpTo(S, n) == UNION { [1..k -> S] : k \in 0..n }

\* The extraction pass over one source file that holds one line.
InitExtract ==
    /\ \E p \in SeqToSet(QUERIES_PATHS), line \in SeqsUpTo(Alphabet, MaxLineLen) :
          files = [q \in SeqToSet(QUERIES_PATHS) |->
                      IF q = p THEN FileOf(<<line>>) ELSE Missing]
    /\ prometheus_url = "http://localhost:9090"
    /\ pc = "extract"
    /\ health = "healthy"
    /\ label_cardinality = EmptyMap
    /\ top_metrics = <<>>
    /\ used_metrics = EmptyMap
    /\ used_labels = {}
    /\ idx = 1
    /\ summary = <<>>
    /\ console = <<>>
    /\ artifact = NoArtifact
    /\ issued = {"health", "top"}
    /\ opened = {}
    /\ ExporterIdle
    /\ UnitIdle

NextExtract == Extract

SpecExtract == InitExtract /\ [][NextExtract]_vars

\* analyze_labels over every short sequence of observations.
LabelKeys == { NAME_LABEL, <<"p">>, <<"a">> }
LabelValues == {"x", "y"}
Observations ==
    UNION { { Mapping(f) : f \in [ks -> LabelValues] } : ks \in SUBSET LabelKeys }

InitAnalyze ==
    /\ unit_series \in SeqsUpTo(Observations, MaxSeries)
    /\ unit_labels = EmptyMap
    /\ unit_pc = "call"
    /\ files = [q \in SeqToSet(QUERIES_PATHS) |-> Missing]
    /\ PipeIdle
    /\ ExporterIdle

Analyze ==
    /\ unit_pc = "call"
    /\ unit_labels' = analyze_labels(List(unit_series)).value
    /\ unit_pc' = "returned"
    /\ UNCHANGED << unit_series, pipeVars, expVars >>

NextAnalyze == Analyze

SpecAnalyze == InitAnalyze /\ [][NextAnalyze]_vars

\* The dashboard exporter.
InitExporter ==
    /\ grafana_url \in {UNSET, "http://localhost:3000/"}
    /\ grafana_session_cookie \in {UNSET, "", "c1"}
    /\ alertmanager_url \in {UNSET, "http://localhost:9093/"}
    /\ alertmanager_session_cookie \in {UNSET, "c2"}
    /\ ExporterStart
    /\ files = [q \in SeqToSet(QUERIES_PATHS) |-> Missing]
    /\ PipeIdle
    /\ UnitIdle

NextExporter ==
    \/ XStartup
    \/ XSearch
    \/ XFetchDashboard
    \/ XWriteQueries
    \/ XSpecificMetric
    \/ XAlerts
    \/ XCleanup

SpecExporter == InitExporter /\ [][NextExporter]_vars

\* ------------------------------------------------------------------ claims
\* Positions of main() that follow the extraction pass.
AfterExtract == {"loop", "write", "done", "crashed"}

ExistingPaths == { p \in SeqToSet(QUERIES_PATHS) : files[p].exists }

\* The metric-name tokens of a line, stated without scanning: a token
\* begins at a start character that no start character precedes within the
\* same stretch of name characters, and runs to the end of that stretch.
MetricTokens(line) ==
    { SubSeq(line, i,
             CHOOSE j \in i..Len(line) :
                 /\ \A q \in i..j : IsMetricChar(line[q])
                 /\ j = Len(line) \/ ~IsMetricChar(line[j + 1])) :
      i \in { i \in 1..Len(line) :
                /\ IsMetricStart(line[i])
                /\ \A b \in 1..(i - 1) :
                      (\A q \in b..(i - 1) : IsMetricChar(line[q]))
                          => ~IsMetricStart(line[b]) } }

\* The identifiers of a line that are followed by optional blanks and '=':
\* an identifier begins at a letter that no letter precedes within the same
\* stretch of identifier characters, and runs to the end of that stretch.
LabelTokens(line) ==
    { SubSeq(line, ij[1], ij[2]) : ij \in
        { ij \in (1..Len(line)) \X (1..Len(line)) :
            /\ ij[1] <= ij[2]
            /\ IsLabelStart(line[ij[1]])
            /\ \A q \in ij[1]..ij[2] : IsLabelChar(line[q])
            /\ \A b \in 1..(ij[1] - 1) :
                  (\A q \in b..(ij[1] - 1) : IsLabelChar(line[q]))
                      => ~IsLabelStart(line[b])
            /\ ij[2] = Len(line) \/ ~IsLabelChar(line[ij[2] + 1])
            /\ \E k \in (ij[2] + 1)..Len(line) :
                  /\ line[k] = "="
                  /\ \A q \in (ij[2] + 1)..(k - 1) : IsSpace(line[q]) } }

LinesOf(p) == SeqToSet(files[p].lines)

\* The metric-name tokens and the label keys of the lines of each existing
\* source file (none for a missing file).
TokensByPath ==
    [p \in SeqToSet(QUERIES_PATHS) |->
        IF files[p].exists
        THEN UNION { MetricTokens(line) : line \in LinesOf(p) }
        ELSE {}]

LabelsByPath ==
    [p \in SeqToSet(QUERIES_PATHS) |->
        IF files[p].exists
        THEN UNION { LabelTokens(line) : line \in LinesOf(p) }
        ELSE {}]

Recorded(name) ==
    IF name \in DOMAIN used_metrics THEN SeqToSet(used_metrics[name]) ELSE {}

\* C1: every report has in_use true exactly when its metric is a key of the
\* usage index, used_in is the list of sources of that key and is the empty
\* list exactly when in_use is false; the digest line of a metric shows
\* UNUSED and "not used" exactly when in_use is false.
C1_ReportUsage ==
    /\ \A i \in 1..Len(summary) :
          LET r == summary[i]
          IN  /\ r.metric = top_metrics[i].metric
              /\ r.in_use <=> (r.metric \in DOMAIN used_metrics)
              /\ r.in_use => r.used_in = used_metrics[r.metric]
              /\ (r.used_in = <<>>) <=> ~r.in_use
    /\ \A i \in 1..Len(console) :
          \E j \in 1..Len(summary) :
              /\ summary[j].metric = console[i].metric
              /\ (console[i].status = "UNUSED") <=> ~summary[j].in_use
              /\ (console[i].detail = <<"not used">>) <=> ~summary[j].in_use
              /\ summary[j].in_use => console[i].detail = summary[j].used_in

C1_Witness ==
    /\ pc = "done"
    /\ \E i, j \in 1..Len(console) :
          /\ console[i].status = "USED"
          /\ console[j].status = "UNUSED"

\* The sequence s is in descending order of series_count.
Descending(s) ==
    \A i, j \in 1..Len(s) : i < j => s[i].series_count >= s[j].series_count

PositionIn(s, metric) == CHOOSE i \in 1..Len(s) : s[i].metric = metric

\* C2 as stated: the summary written to the file is in descending order of
\* series_count.
C2_ArtifactDescending ==
    artifact.fresh => Descending(artifact.content)

\* C2 as amended: the digest main() prints is in descending order of
\* series_count, reports of equal series_count in the order they were built;
\* the summary written to the file lists the reports in the order the
\* backend returned the metrics.
C2_DigestDescending ==
    /\ pc \in {"write", "done"} =>
          /\ Len(console) = Len(summary)
          /\ { console[i].metric : i \in 1..Len(console) }
                = { summary[i].metric : i \in 1..Len(summary) }
          /\ Descending(console)
          /\ \A i, j \in 1..Len(console) :
                (i < j /\ console[i].series_count = console[j].series_count)
                    => PositionIn(summary, console[i].metric)
                         < PositionIn(summary, console[j].metric)
    /\ artifact.fresh =>
          /\ Len(artifact.content) = Len(top_metrics)
          /\ \A i \in 1..Len(top_metrics) :
                /\ artifact.content[i].metric = top_metrics[i].metric
                /\ artifact.content[i].series_count = top_metrics[i].series_count

C2_Witness ==
    /\ pc = "done"
    /\ Len(summary) >= 2
    /\ console[1].metric = summary[2].metric
    /\ ~Descending(artifact.content)

\* C3: a label of a report has in_use true exactly when the label is in the
\* label usage set, which holds the label keys captured from the lines of
\* the query sources, whatever the metric's in_use and the label's
\* cardinality; the labels of the report just built are those of the label
\* analysis, with its counts.
C3_LabelUsage ==
    /\ pc \in AfterExtract =>
          \A captured \in { UNION { LabelTokens(line) :
                                      line \in UNION { LinesOf(p) : p \in ExistingPaths } } } :
              /\ used_labels = captured
              /\ \A i \in 1..Len(summary) :
                    \A l \in DOMAIN summary[i].labels :
                        /\ summary[i].labels[l].in_use <=> (l \in used_labels)
                        /\ summary[i].labels[l].in_use <=> (l \in captured)
    /\ pc \notin AfterExtract => summary = <<>>
    /\ (pc \in AfterExtract /\ summary # <<>>) =>
          LET last == summary[Len(summary)].labels
          IN  /\ DOMAIN last = DOMAIN label_cardinality
              /\ \A l \in DOMAIN last :
                    last[l].cardinality = label_cardinality[l]

C3_Witness ==
    \E i \in 1..Len(summary) :
        /\ ~summary[i].in_use
        /\ \E l, m \in DOMAIN summary[i].labels :
              /\ summary[i].labels[l].in_use
              /\ summary[i].labels[l].cardinality = 2
              /\ ~summary[i].labels[m].in_use

\* The observations of unit_series that carry label l.
Carrying(l) ==
    { i \in 1..Len(unit_series) : l \in DOMAIN unit_series[i].items }

\* C4: analyze_labels maps exactly the labels other than "__name__" that
\* occur in an observation, each to the number of distinct values seen for
\* it: nothing for no observations, 1 for every label when all observations
\* are equal, never 0 and never more than the number of observations.
C4_Cardinality ==
    unit_pc = "returned" =>
        /\ DOMAIN unit_labels
              = { l \in LabelKeys : Carrying(l) # {} } \ {NAME_LABEL}
        /\ \A l \in DOMAIN unit_labels :
              /\ unit_labels[l]
                    = Cardinality({ unit_series[i].items[l] : i \in Carrying(l) })
              /\ unit_labels[l] >= 1
              /\ unit_labels[l] <= Len(unit_series)
        /\ unit_series = <<>> => unit_labels = EmptyMap
        /\ (\A i, j \in 1..Len(unit_series) : unit_series[i] = unit_series[j])
              => \A l \in DOMAIN unit_labels : unit_labels[l] = 1

C4_Witness ==
    /\ unit_pc = "returned"
    /\ Len(unit_series) = 2
    /\ NAME_LABEL \in DOMAIN unit_series[1].items
    /\ \E l, m \in DOMAIN unit_labels :
          unit_labels[l] = 2 /\ unit_labels[m] = 1

\* The one line and the source tag of the extraction pass over one file.
TheFile == CHOOSE p \in SeqToSet(QUERIES_PATHS) : files[p].exists
TheLine == files[TheFile].lines[1]

\* C5: the keys the usage index gets from a line are the metric-name tokens
\* of the line wherever they stand, each with the file's source tag recorded
\* once; the label keys are the identifiers followed by optional blanks and
\* '=', without the '='; a line without a match adds nothing.
C5_LineTokens ==
    pc = "loop" =>
        /\ DOMAIN used_metrics = MetricTokens(TheLine)
        /\ \A k \in DOMAIN used_metrics : used_metrics[k] = <<SourceOf(TheFile)>>
        /\ used_labels = LabelTokens(TheLine)
        /\ \A l \in used_labels : "=" \notin SeqToSet(l)
        /\ (MetricFindall(TheLine) = <<>> /\ LabelFindall(TheLine) = <<>>)
              => (used_metrics = EmptyMap /\ used_labels = {})

C5_Witness ==
    /\ pc = "loop"
    /\ Len(TheLine) = MaxLineLen
    /\ ~IsMetricChar(TheLine[1])
    /\ Cardinality(DOMAIN used_metrics) = 2
    /\ used_labels # {}

C7_BatchNeverAborts ==
    /\ pc # "crashed"
    /\ pc = "loop" => Len(summary) = idx - 1
    /\ pc \in {"write", "done"} => Len(summary) = Len(top_metrics)

\* C8: with PROMETHEUS_URL unset or the health probe failed the run stops
\* there: no top-N query, no series fetch, no query-source file opened, no
\* report built and the summary file neither created nor overwritten.
C8_AbortBeforeWork ==
    /\ Falsy(prometheus_url) => (pc \in {"start", "raised"} /\ issued = {})
    /\ health = "unhealthy" => pc = "returned"
    /\ (Falsy(prometheus_url) \/ health = "unhealthy") =>
          /\ issued \subseteq {"health"}
          /\ opened = {}
          /\ summary = <<>>
          /\ console = <<>>
          /\ ~artifact.fresh
    /\ pc \in {"raised", "returned"} => ~ENABLED Next

C8_Witness ==
    /\ health = "unhealthy"
    /\ pc = "returned"
    /\ artifact.present
    /\ ExistingPaths # {}

\* C9: the extraction pass opens the existing files only and its result is
\* what their lines give, whichever files are missing; it never ends the
\* run, which goes on to the loop over the metrics and, unless a series
\* fetch raises, to the write of the summary.
C9_MissingSkipped ==
    /\ pc \in AfterExtract =>
          \A tok \in {TokensByPath}, lab \in {LabelsByPath} :
              /\ opened = ExistingPaths
              /\ DOMAIN used_metrics = UNION { tok[p] : p \in ExistingPaths }
              /\ \A k \in DOMAIN used_metrics :
                    SeqToSet(used_metrics[k])
                        \subseteq { SourceOf(p) : p \in ExistingPaths }
              /\ used_labels = UNION { lab[p] : p \in ExistingPaths }
              /\ ExistingPaths = {} => (used_metrics = EmptyMap /\ used_labels = {})
    /\ pc = "crashed_top" => opened = {}
    /\ pc = "loop" => idx \in 1..(Len(top_metrics) + 1)
    /\ pc = "crashed" => ("series" \in issued /\ idx <= Len(top_metrics))
    /\ pc = "done" => (artifact.fresh /\ Len(artifact.content) = Len(top_metrics))

C9_Witness ==
    /\ pc = "done"
    /\ ~files[GRAFANA_FILE].exists
    /\ files[ALERT_FILE].exists
    /\ used_metrics # EmptyMap
    /\ Len(artifact.content) = 2

\* C10: with GRAFANA_URL set and GRAFANA_SESSION_COOKIE unset the exporter
\* does not abort at startup but sends its requests without a Cookie header;
\* an unset ALERTMANAGER_SESSION_COOKIE leaves the alert request without one.
C10_CookieOptional ==
    /\ (~Falsy(grafana_url) /\ Falsy(grafana_session_cookie)) => xpc # "raised"
    /\ \A r \in sent :
          (r.to # "alertmanager:/api/v2/alerts"
              /\ Falsy(grafana_session_cookie)) => r.headers = NoHeaders
    /\ \A r \in sent :
          (r.to = "alertmanager:/api/v2/alerts"
              /\ Falsy(alertmanager_session_cookie)) => r.headers = NoHeaders

====
